---- MODULE Spec2Model ----
(***************************************************************************)
(* Model of the VFD display server: VFDManager (src/main.py), the display  *)
(* job threads started by display_order_on_vfd (src/main.py) and the       *)
(* serial driver VFD220 (src/vfd220.py).                                   *)
(*                                                                         *)
(* Threads: the request handler H (it first runs the start-up block of     *)
(* __main__, then serves one request after the other) and one job thread   *)
(* per accepted order, numbered in submission order.  The serial port is   *)
(* the environment: every open, liveness read and write may succeed or     *)
(* raise, chosen at the call.                                              *)
(***************************************************************************)
EXTENDS Integers, Sequences, FiniteSets, TLC

\* Number of job threads display_order_on_vfd starts under Spec; SpecBurst
\* lets it start one more.
MaxJobs == 2

\* len(self.baud_rates) for the default VFD_BAUD_RATES '9600,2400,4800,19200'.
NBauds == 4

H == 0
Jobs == 1..(MaxJobs + 1)
Threads == {H} \cup Jobs
NoThread == -1

VARIABLES
    pc,         \* position of every thread
    lock,       \* VFDManager._lock: the holder, or NoThread
    connected,  \* VFDManager._connected
    ser,        \* VFD220.ser: "none" (None), "open", "closed"
    orders,     \* the global list `orders`
    cur,        \* current_display_thread: a job, or 0 for None
    stop,       \* stop[j]: the Event made for job j is set
    jorder,     \* jorder[j]: name of the order job j runs with ("none": no such thread)
    jres,       \* jres[j]: how display_order ended in job j: "none" (not yet), "ok"
                \* (True), "fail" (False, not connected), "raised" (False, except branch)
    hop,        \* what the handler is doing: "boot", "status", "welcome", "order", "none"
    hreq,       \* name of the payload of the request being handled
    hret,       \* value returned to the handler by the operation it called
    wfail,      \* a serial write raised inside the handler's current operation
    linkUp,     \* in the handler's current operation is_connected() was True or an open succeeded
    \* VFDManager and VFD220 driven by one caller, call by call (SpecDriver):
    mpc,        \* where the caller is: "off", "connect", "idle", "ensure", "checked"
    mop,        \* the operation called last: "init" (VFDManager()), "test_connection",
                \* "display_welcome", "display_order", "deconnect"
    marg,       \* name of the order given to display_order
    baud,       \* position in self.baud_rates of the rate VFD220.connect tries next
    attempts,   \* the open_serial_port calls of the current operation, in order
    handle,     \* position of the rate self.ser was opened at; 0 when it is None
    alive,      \* what is_connected() returned in the current operation
    mres,       \* how the operation ended: "True", "False", "None", "raised"
    \* The loop of display_order over the items of one order (SpecRender):
    order_items,\* the order: a sequence of [price, quantity], prices in 1/Scale
    total,      \* the local `total`, in 1/Scale
    lines,      \* the local `lines`: the amount texts appended so far
    \* display_order_on_vfd called by several request threads (SpecSubmit):
    spc,        \* spc[s]: where request thread s is in display_order_on_vfd
    sde,        \* stop_display_event: the number of the Event it refers to
    jev,        \* jev[j]: the number of the Event given to job thread j
    \* One order on its way from display_order to the device (SpecScreen):
    screen_order,  \* the order: a sequence of [name, price, quantity]
    display_lines, \* the local `display_lines` of send_multiline_text
    sent,          \* number of send_text calls made for display_lines
    written        \* the texts given to ser.write since the display was cleared

\* The variables of the server.
server == <<pc, lock, orders, cur, stop, jorder, jres, hop, hreq, hret, wfail,
            linkUp>>

\* The variables of the single-caller view of the manager and the driver.
driver == <<mpc, mop, marg, baud, attempts, handle, alive, mres>>

\* The variables of the rendering loop.
render == <<order_items, total, lines>>

\* The variables of concurrent submission.
submit == <<spc, sde, jev>>

\* The variables of the path of one order to the device.
screen == <<screen_order, display_lines, sent, written>>

\* The variables the server's steps leave alone.
aux == <<driver, render, submit, screen>>

vars == <<pc, lock, connected, ser, orders, cur, stop, jorder, jres,
          hop, hreq, hret, wfail, linkUp, aux>>

-----------------------------------------------------------------------------
(* Request payloads.  An item is a JSON value: dict says whether it is an   *)
(* object, f holds its fields (texts).  A payload is a JSON value: list    *)
(* says whether it is an array.                                             *)

\* The text of the 401-digit integer literal 1 followed by 400 zeros.
HugeInt == "1e400-digits"

Item(fields) == [dict |-> TRUE, f |-> fields]

Payload(name) ==
    CASE name = "bread"   -> [list |-> TRUE, items |->
                               << Item([name |-> "Bread", price |-> "2500", quantity |-> "2"]),
                                  Item([name |-> "Milk", price |-> "1200", quantity |-> "3"]) >>]
      [] name = "refund"  -> [list |-> TRUE, items |->
                               << Item([name |-> "Refund", price |-> "-500"]),
                                  Item([name |-> "Egg", price |-> "300", quantity |-> "0"]) >>]
      [] name = "bulk"    -> [list |-> TRUE, items |->
                               << Item([name |-> "Bulk", price |-> "1.5", quantity |-> HugeInt]) >>]
      [] name = "badprice" -> [list |-> TRUE, items |->
                               << Item([name |-> "Tea", price |-> "abc", quantity |-> "1"]) >>]
      [] name = "badqty"  -> [list |-> TRUE, items |->
                               << Item([name |-> "Tea", price |-> "100", quantity |-> "x"]) >>]
      [] name = "noname"  -> [list |-> TRUE, items |->
                               << Item([price |-> "100", quantity |-> "1"]) >>]
      [] name = "scalar"  -> [list |-> TRUE, items |-> << [dict |-> FALSE, f |-> [text |-> "x"]] >>]
      [] name = "object"  -> [list |-> FALSE, items |-> << >>]
      [] OTHER            -> [list |-> TRUE, items |-> << >>]

PayloadNames ==
    {"bread", "refund", "bulk", "badprice", "badqty", "noname", "scalar",
     "object", "empty"}

\* float(text) returns: the texts float() accepts.
FloatParses(text) == text \in {"2500", "1200", "300", "100", "-500", "1.5", "0"}

\* int(text) returns: the texts int() accepts.
IntParses(text) == text \in {"0", "1", "2", "3", HugeInt}

\* The value of int(text) is beyond the range of a float, so that
\* price * quantity raises OverflowError.
IntTooLarge(text) == text = HugeInt

\* item.get('price', 0) and item.get('quantity', 1)
GetPrice(item) == IF "price" \in DOMAIN item.f THEN item.f.price ELSE "0"
GetQuantity(item) == IF "quantity" \in DOMAIN item.f THEN item.f.quantity ELSE "1"

Range(s) == {s[i] : i \in 1..Len(s)}

\* A validate_order_data without the try/except around float() and int().
validate_without_parse(data) ==
    /\ data.list
    /\ \A item \in Range(data.items) :
          /\ item.dict
          /\ "name" \in DOMAIN item.f
          /\ "price" \in DOMAIN item.f

validate_order_data(data) ==
    /\ data.list
    /\ \A item \in Range(data.items) :
          /\ item.dict
          /\ "name" \in DOMAIN item.f
          /\ "price" \in DOMAIN item.f
          /\ FloatParses(GetPrice(item))
          /\ IntParses(GetQuantity(item))

\* The loop of display_order over the items raises: float() or int() raises,
\* or price * quantity raises OverflowError.
RenderRaises(items) ==
    \E item \in Range(items) :
        \/ ~FloatParses(GetPrice(item))
        \/ ~IntParses(GetQuantity(item))
        \/ IntTooLarge(GetQuantity(item))

Items(name) == Payload(name).items

-----------------------------------------------------------------------------
(* The serial driver.                                                       *)

\* VFD220.is_connected(): the values it can return for the handle s.
IsConnectedResults(s) == IF s = "open" THEN {TRUE, FALSE} ELSE {FALSE}

\* VFD220.connect() from candidate rate i on, self.ser being s: every way the
\* sweep can end.  ok: connect returned True; raised: an exception other than
\* SerialException left open_serial_port, so self.ser kept the value s.
RECURSIVE Sweep(_, _)
Sweep(i, s) ==
    IF i > NBauds
    THEN {[ser |-> s, ok |-> FALSE, raised |-> FALSE]}
    ELSE {[ser |-> "open", ok |-> TRUE, raised |-> FALSE],
          [ser |-> s, ok |-> FALSE, raised |-> TRUE]}
         \cup Sweep(i + 1, "none")

\* One ser.write through clear_display / send_text: "skip" (self.ser is None),
\* "sent", or "raised" (caught and logged inside VFD220).
WriteResults(s) ==
    CASE s = "none"   -> {"skip"}
      [] s = "closed" -> {"raised"}
      [] OTHER        -> {"sent", "raised"}

-----------------------------------------------------------------------------
\* The single-caller view is not in use.
DriverOff ==
    /\ mpc = "off"
    /\ mop = "none"
    /\ marg = "none"
    /\ baud = 1
    /\ attempts = << >>
    /\ handle = 0
    /\ alive = "none"
    /\ mres = "none"

\* No rendering loop is being followed.
RenderOff ==
    /\ order_items = << >>
    /\ total = 0
    /\ lines = << >>

\* No request thread besides the handler.
SubmitOff ==
    /\ spc = << >>
    /\ sde = 0
    /\ jev = [j \in Jobs |-> 0]

\* No order is being followed to the device.
ScreenOff ==
    /\ screen_order = << >>
    /\ display_lines = << >>
    /\ sent = 0
    /\ written = << >>

Init ==
    /\ pc = [t \in Threads |-> IF t = H THEN "acquire" ELSE "new"]
    /\ lock = NoThread
    /\ \E o \in Sweep(1, "none") : ser = o.ser /\ connected = o.ok
    /\ orders = << >>
    /\ cur = 0
    /\ stop = [j \in Jobs |-> FALSE]
    /\ jorder = [j \in Jobs |-> "none"]
    /\ jres = [j \in Jobs |-> "none"]
    /\ hop = "boot"
    /\ hreq = "none"
    /\ hret = FALSE
    /\ wfail = FALSE
    /\ linkUp = FALSE
    /\ DriverOff
    /\ RenderOff
    /\ SubmitOff
    /\ ScreenOff

-----------------------------------------------------------------------------
(* The public operations of VFDManager, run by thread t.                    *)

\* A `with self._lock` that does not wait for the lock to be free.
LockFreeIgnored == TRUE

\* `with self._lock` can be entered.
LockFree == lock = NoThread

\* An operation that returns without leaving the `with self._lock` block.
ReturnKeepsLock(t, res) ==
    /\ lock' = lock
    /\ pc' = [pc EXCEPT ![t] = IF t = H THEN "ret" ELSE "wait"]
    /\ hret' = IF t = H THEN (res = "ok") ELSE hret
    /\ jres' = IF t = H THEN jres ELSE [jres EXCEPT ![t] = res]

\* The operation of t ends as res ("ok": it returns True; "fail", "raised":
\* it returns False) and leaves the `with self._lock` block.
Return(t, res) ==
    /\ lock' = NoThread
    /\ pc' = [pc EXCEPT ![t] = IF t = H THEN "ret" ELSE "wait"]
    /\ hret' = IF t = H THEN (res = "ok") ELSE hret
    /\ jres' = IF t = H THEN jres ELSE [jres EXCEPT ![t] = res]

Acquire(t) ==
    /\ pc[t] = "acquire"
    /\ LockFree
    /\ lock' = t
    /\ pc' = [pc EXCEPT ![t] = "ensure"]
    /\ UNCHANGED aux
    /\ UNCHANGED <<connected, ser, orders, cur, stop, jorder, jres, hop, hreq,
                   hret, wfail, linkUp>>

\* After _ensure_connection(): `if not self._connected: return False`.
AfterEnsure(t, conn) ==
    IF conn
    THEN /\ pc' = [pc EXCEPT ![t] = "write"]
         /\ UNCHANGED <<lock, hret, jres>>
    ELSE Return(t, "fail")

\* _ensure_connection() when is_connected() is True: nothing is touched.
EnsureAlive(t) ==
    /\ pc[t] = "ensure"
    /\ TRUE \in IsConnectedResults(ser)
    /\ linkUp' = IF t = H THEN TRUE ELSE linkUp
    /\ AfterEnsure(t, connected)
    /\ UNCHANGED aux
    /\ UNCHANGED <<connected, ser, orders, cur, stop, jorder, hop, hreq, wfail>>

\* _ensure_connection() when is_connected() is False: _connected = False,
\* then _connect() runs the sweep.
EnsureReconnect(t) ==
    /\ pc[t] = "ensure"
    /\ FALSE \in IsConnectedResults(ser)
    /\ \E o \in Sweep(1, ser) :
          /\ ser' = o.ser
          /\ connected' = o.ok
          /\ linkUp' = IF t = H THEN o.ok ELSE linkUp
          /\ AfterEnsure(t, o.ok)
    /\ UNCHANGED aux
    /\ UNCHANGED <<orders, cur, stop, jorder, hop, hreq, wfail>>

\* Whether some ser.write among ws raised.
AnyRaised(ws) == \E i \in 1..Len(ws) : ws[i] = "raised"

\* A test_connection / display_welcome that empties `orders` as it writes.
WriteWelcomeClearsOrders(t) ==
    /\ pc[t] = "write"
    /\ t = H
    /\ \E w1 \in WriteResults(ser), w2 \in WriteResults(ser) :
          wfail' = AnyRaised(<<w1, w2>>)
    /\ Return(t, "ok")
    /\ orders' = << >>
    /\ UNCHANGED aux
    /\ UNCHANGED <<connected, ser, cur, stop, jorder, hop, hreq, linkUp>>

\* test_connection / display_welcome: clear_display(); send_text(WELCOME_MESSAGE);
\* return True
WriteWelcome(t) ==
    /\ pc[t] = "write"
    /\ t = H
    /\ \E w1 \in WriteResults(ser), w2 \in WriteResults(ser) :
          wfail' = AnyRaised(<<w1, w2>>)
    /\ Return(t, "ok")
    /\ UNCHANGED aux
    /\ UNCHANGED <<connected, ser, orders, cur, stop, jorder, hop, hreq,
                   linkUp>>

\* display_order: clear_display(); the loop over the items raises; the except
\* branch sets _connected = False and returns False.
WriteOrderRaises(t) ==
    /\ pc[t] = "write"
    /\ t \in Jobs
    /\ RenderRaises(Items(jorder[t]))
    /\ connected' = FALSE
    /\ Return(t, "raised")
    /\ UNCHANGED aux
    /\ UNCHANGED <<ser, orders, cur, stop, jorder, hop, hreq, wfail, linkUp>>

\* display_order: clear_display(); the lines are built;
\* send_multiline_text(lines); return True.  A ser.write that raises is caught
\* inside VFD220, so the outcome of the writes changes nothing here.
WriteOrder(t) ==
    /\ pc[t] = "write"
    /\ t \in Jobs
    /\ ~RenderRaises(Items(jorder[t]))
    /\ Return(t, "ok")
    /\ UNCHANGED aux
    /\ UNCHANGED <<connected, ser, orders, cur, stop, jorder, hop, hreq, wfail,
                   linkUp>>

-----------------------------------------------------------------------------
(* The handler thread.                                                      *)

\* __main__: `if vfd_manager.test_connection(): ... vfd_manager.deconnect()`,
\* with close() returning when the handle is open.
BootDone ==
    /\ pc[H] = "ret"
    /\ hop = "boot"
    /\ IF hret
       THEN /\ ser' = IF ser = "open" THEN "closed" ELSE ser
            /\ connected' = FALSE
       ELSE UNCHANGED <<ser, connected>>
    /\ pc' = [pc EXCEPT ![H] = "serve"]
    /\ hop' = "none"
    /\ hret' = FALSE
    /\ wfail' = FALSE
    /\ linkUp' = FALSE
    /\ UNCHANGED aux
    /\ UNCHANGED <<lock, orders, cur, stop, jorder, jres, hreq>>

\* __main__: inside deconnect() close() raises; nothing catches it, so the
\* main thread ends before app.run() and no request is ever served.
BootCloseRaises ==
    /\ pc[H] = "ret"
    /\ hop = "boot"
    /\ hret
    /\ ser = "open"
    /\ pc' = [pc EXCEPT ![H] = "crashed"]
    /\ UNCHANGED aux
    /\ UNCHANGED <<lock, connected, ser, orders, cur, stop, jorder, jres, hop,
                   hreq, hret, wfail, linkUp>>

\* The status and welcome endpoints call test_connection / display_welcome.
CallOperation ==
    /\ pc[H] = "serve"
    /\ \E kind \in {"status", "welcome"} : hop' = kind
    /\ pc' = [pc EXCEPT ![H] = "acquire"]
    /\ UNCHANGED aux
    /\ UNCHANGED <<lock, connected, ser, orders, cur, stop, jorder, jres,
                   hreq, hret, wfail, linkUp>>

\* Thread.is_alive() of current_display_thread
IsAlive(j) == j # 0 /\ pc[j] \notin {"new", "done"}

NextJob == Cardinality({j \in Jobs : pc[j] # "new"}) + 1

\* The tail of display_order_on_vfd: a new Event, a new Thread, start().
StartJob(name) ==
    /\ cur' = NextJob
    /\ jorder' = [jorder EXCEPT ![NextJob] = name]
    /\ pc' = [pc EXCEPT ![H] = "ret", ![NextJob] = "started"]
    /\ hret' = TRUE

\* receive_order: `if not data`
NoData(data) == data.list /\ data.items = << >>

\* receive_order refuses the payload (no data, or validate_order_data fails).
ReceiveOrderRejected ==
    /\ pc[H] = "serve"
    /\ \E name \in PayloadNames :
          /\ NoData(Payload(name)) \/ ~validate_order_data(Payload(name))
          /\ hreq' = name
    /\ hop' = "order"
    /\ hret' = FALSE
    /\ pc' = [pc EXCEPT ![H] = "ret"]
    /\ UNCHANGED aux
    /\ UNCHANGED <<lock, connected, ser, orders, cur, stop, jorder, jres,
                   wfail, linkUp>>

\* receive_order hands the payload to display_order_on_vfd, which accepts it;
\* limit bounds the number of jobs.
Accepted(name, limit) ==
    /\ ~NoData(Payload(name))
    /\ validate_order_data(Payload(name))
    /\ NextJob <= limit

\* display_order_on_vfd with no live job: the new job is started at once.
ReceiveOrderStart(limit) ==
    /\ pc[H] = "serve"
    /\ ~IsAlive(cur)
    /\ \E name \in PayloadNames :
          /\ Accepted(name, limit)
          /\ hreq' = name
          /\ StartJob(name)
    /\ hop' = "order"
    /\ UNCHANGED aux
    /\ UNCHANGED <<lock, connected, ser, orders, stop, jres, wfail, linkUp>>

\* display_order_on_vfd with a live job: stop_display_event.set(), then join.
ReceiveOrderSignal(limit) ==
    /\ pc[H] = "serve"
    /\ IsAlive(cur)
    /\ \E name \in PayloadNames :
          /\ Accepted(name, limit)
          /\ hreq' = name
    /\ hop' = "order"
    /\ stop' = [stop EXCEPT ![cur] = TRUE]
    /\ pc' = [pc EXCEPT ![H] = "join"]
    /\ UNCHANGED aux
    /\ UNCHANGED <<lock, connected, ser, orders, cur, jorder, jres, hret,
                   wfail, linkUp>>

\* join(timeout=2) has returned: stop_display_event.clear(); the new job starts.
AfterJoin ==
    /\ stop' = [stop EXCEPT ![cur] = FALSE]
    /\ StartJob(hreq)
    /\ UNCHANGED aux
    /\ UNCHANGED <<lock, connected, ser, orders, jres, hop, hreq, wfail,
                   linkUp>>

\* join returns because the job thread ended.
JoinFinished ==
    /\ pc[H] = "join"
    /\ pc[cur] = "done"
    /\ AfterJoin

\* join returns because its timeout elapsed; the job thread is still alive.
JoinTimeout ==
    /\ pc[H] = "join"
    /\ pc[cur] # "done"
    /\ AfterJoin

\* The endpoint answers; the handler takes the next request.
Respond ==
    /\ pc[H] = "ret"
    /\ hop # "boot"
    /\ pc' = [pc EXCEPT ![H] = "serve"]
    /\ hop' = "none"
    /\ hreq' = "none"
    /\ hret' = FALSE
    /\ wfail' = FALSE
    /\ linkUp' = FALSE
    /\ UNCHANGED aux
    /\ UNCHANGED <<lock, connected, ser, orders, cur, stop, jorder, jres>>

-----------------------------------------------------------------------------
(* display_order_thread, run by job j.                                      *)

\* orders.clear()
JobClear(j) ==
    /\ pc[j] = "started"
    /\ orders' = << >>
    /\ pc' = [pc EXCEPT ![j] = "cleared"]
    /\ UNCHANGED aux
    /\ UNCHANGED <<lock, connected, ser, cur, stop, jorder, jres, hop, hreq,
                   hret, wfail, linkUp>>

\* orders.extend(order); display_order is entered (`if not order_items`).
JobExtend(j) ==
    /\ pc[j] = "cleared"
    /\ orders' = orders \o Items(jorder[j])
    /\ IF Items(jorder[j]) = << >>
       THEN /\ pc' = [pc EXCEPT ![j] = "wait"]
            /\ jres' = [jres EXCEPT ![j] = "fail"]
       ELSE /\ pc' = [pc EXCEPT ![j] = "acquire"]
            /\ UNCHANGED jres
    /\ UNCHANGED aux
    /\ UNCHANGED <<lock, connected, ser, cur, stop, jorder, hop, hreq, hret,
                   wfail, linkUp>>

\* display_order_thread returns: the thread ends, and with it its arguments
\* and locals (`order`, `success`).
JobEnd(j) ==
    /\ pc' = [pc EXCEPT ![j] = "done"]
    /\ jorder' = [jorder EXCEPT ![j] = "none"]
    /\ jres' = [jres EXCEPT ![j] = "none"]
    /\ UNCHANGED aux
    /\ UNCHANGED <<lock, connected, ser, orders, cur, stop, hop, hreq, hret,
                   wfail, linkUp>>

\* stop_event.wait(DISPLAY_TIMEOUT) returns because the event is set.
WaitStopped(j) ==
    /\ pc[j] = "wait"
    /\ stop[j]
    /\ JobEnd(j)

\* A stop_event.wait() without a timeout: it returns only once the event is set.
WaitNoTimeout(j) ==
    /\ pc[j] = "wait"
    /\ stop[j]
    /\ JobEnd(j)

\* stop_event.wait(DISPLAY_TIMEOUT) returns because the timeout elapsed.
WaitTimeout(j) ==
    /\ pc[j] = "wait"
    /\ ~stop[j]
    /\ JobEnd(j)

-----------------------------------------------------------------------------
\* The steps of the job threads and of the operations under the lock.
Work ==
    \/ \E t \in Threads : Acquire(t)
    \/ \E t \in Threads : EnsureAlive(t)
    \/ \E t \in Threads : EnsureReconnect(t)
    \/ \E t \in Threads : WriteWelcome(t)
    \/ \E t \in Threads : WriteOrderRaises(t)
    \/ \E t \in Threads : WriteOrder(t)
    \/ BootDone
    \/ BootCloseRaises
    \/ ReceiveOrderRejected
    \/ JoinFinished
    \/ JoinTimeout
    \/ Respond
    \/ \E j \in Jobs : JobClear(j)
    \/ \E j \in Jobs : JobExtend(j)
    \/ \E j \in Jobs : WaitStopped(j)
    \/ \E j \in Jobs : WaitTimeout(j)

Next ==
    \/ Work
    \/ CallOperation
    \/ ReceiveOrderStart(MaxJobs)
    \/ ReceiveOrderSignal(MaxJobs)

Spec == Init /\ [][Next]_vars

\* Fair scheduling: a thread that can take a step of its own takes it, and a
\* thread waiting for _lock gets it if the lock is free again and again.
Fairness ==
    /\ \A t \in Threads :
          /\ SF_vars(Acquire(t))
          /\ WF_vars(EnsureAlive(t) \/ EnsureReconnect(t))
          /\ WF_vars(WriteWelcome(t) \/ WriteOrderRaises(t) \/ WriteOrder(t))
    /\ \A j \in Jobs :
          /\ WF_vars(JobClear(j))
          /\ WF_vars(JobExtend(j))
          /\ WF_vars(WaitStopped(j) \/ WaitTimeout(j))

\* The k-th order of a burst: the orders alternate between one that renders
\* and one whose render raises.
FairOrder(k) == IF k % 2 = 1 THEN "bread" ELSE "bulk"

\* The server after start-up under a burst of accepted orders.  Its behaviours
\* are behaviours of the program.
NextFair ==
    \/ \E t \in Threads : Acquire(t)
    \/ \E t \in Threads : EnsureAlive(t)
    \/ \E t \in Threads : EnsureReconnect(t)
    \/ \E t \in Threads : WriteWelcome(t)
    \/ \E t \in Threads : WriteOrderRaises(t)
    \/ \E t \in Threads : WriteOrder(t)
    \/ BootDone
    \/ BootCloseRaises
    \/ JoinFinished
    \/ JoinTimeout
    \/ Respond
    \/ \E j \in Jobs : JobClear(j)
    \/ \E j \in Jobs : JobExtend(j)
    \/ \E j \in Jobs : WaitStopped(j)
    \/ \E j \in Jobs : WaitTimeout(j)
    \/ ReceiveOrderStart(MaxJobs) /\ hreq' = FairOrder(NextJob)
    \/ ReceiveOrderSignal(MaxJobs) /\ hreq' = FairOrder(NextJob)

\* The burst under fair scheduling; orders arrive or not.
SpecFair == Init /\ [][NextFair]_vars /\ Fairness

\* The server under a burst of orders: one more job than under Spec, and no
\* status or welcome request while it serves.  Its behaviours are behaviours
\* of the program.
NextBurst ==
    \/ Work
    \/ ReceiveOrderStart(MaxJobs + 1)
    \/ ReceiveOrderSignal(MaxJobs + 1)

SpecBurst == Init /\ [][NextBurst]_vars

\* deconnect() called from the handler thread while the server runs.  It takes
\* no lock: disconnect() closes an open handle, then _connected = False.  In
\* the program itself only __main__ calls deconnect(), before app.run().
CallDeconnect ==
    /\ pc[H] = "serve"
    /\ hop' = "deconnect"
    /\ ser' = IF ser = "open" THEN "closed" ELSE ser
    /\ connected' = FALSE
    /\ pc' = [pc EXCEPT ![H] = "ret"]
    /\ UNCHANGED aux
    /\ UNCHANGED <<lock, orders, cur, stop, jorder, jres, hreq, hret, wfail,
                   linkUp>>

\* VFDManager shared by the display jobs and by a thread that calls its public
\* operation deconnect() at any time, as the class allows.
NextClients ==
    \/ Work
    \/ ReceiveOrderStart(MaxJobs)
    \/ ReceiveOrderSignal(MaxJobs)
    \/ CallDeconnect

SpecClients == Init /\ [][NextClients]_vars

-----------------------------------------------------------------------------
(* VFDManager and VFD220 driven by one caller, one call after the other,    *)
(* with VFD220.connect taken one open_serial_port call at a time.  With a   *)
(* single caller `with self._lock` is always entered at once.               *)

\* The orders display_order is called with.
DriverOrders == {"bread", "bulk", "empty"}

\* VFDManager(): _connected = False, VFD220() with ser = None, then _connect().
InitDriver ==
    /\ pc = [t \in Threads |-> "new"]
    /\ lock = NoThread
    /\ connected = FALSE
    /\ ser = "none"
    /\ orders = << >>
    /\ cur = 0
    /\ stop = [j \in Jobs |-> FALSE]
    /\ jorder = [j \in Jobs |-> "none"]
    /\ jres = [j \in Jobs |-> "none"]
    /\ hop = "none"
    /\ hreq = "none"
    /\ hret = FALSE
    /\ wfail = FALSE
    /\ linkUp = FALSE
    /\ mpc = "connect"
    /\ mop = "init"
    /\ marg = "none"
    /\ baud = 1
    /\ attempts = << >>
    /\ handle = 0
    /\ alive = "none"
    /\ mres = "none"
    /\ RenderOff
    /\ SubmitOff
    /\ ScreenOff

\* A `for baud in self.baud_rates` that leaves out every other rate.
SkipRate(b) == b + 2

\* `for baud in self.baud_rates`: the rate after the one at position b.
NextRate(b) == b + 1

\* Where the caller is once _connect() has returned: VFDManager() is over, or
\* the operation goes on after _ensure_connection().
AfterConnect ==
    /\ mpc' = IF mop = "init" THEN "idle" ELSE "checked"
    /\ mres' = IF mop = "init" THEN "None" ELSE mres

\* The call of a public operation begins.
Called(op, name) ==
    /\ mpc = "idle"
    /\ mop' = op
    /\ marg' = name
    /\ attempts' = << >>
    /\ alive' = "none"

\* test_connection(), display_welcome() or display_order(order) is called with
\* a non-empty order: the lock is taken, _ensure_connection() is next.
ManagerCall ==
    /\ \/ \E op \in {"test_connection", "display_welcome"} : Called(op, "none")
       \/ \E name \in DriverOrders :
             Items(name) # << >> /\ Called("display_order", name)
    /\ mpc' = "ensure"
    /\ mres' = "none"
    /\ UNCHANGED <<connected, ser, baud, handle, server, render, submit,
                   screen>>

\* display_order(order): `if not order_items: return False`
ManagerCallNoItems ==
    /\ \E name \in DriverOrders :
          Items(name) = << >> /\ Called("display_order", name)
    /\ mpc' = "idle"
    /\ mres' = "False"
    /\ UNCHANGED <<connected, ser, baud, handle, server, render, submit,
                   screen>>

\* _ensure_connection(): is_connected() returns r; when it is False,
\* _connected = False and _connect() begins the sweep.
ManagerIsConnected ==
    /\ mpc = "ensure"
    /\ \E r \in IsConnectedResults(ser) :
          /\ alive' = IF r THEN "yes" ELSE "no"
          /\ mpc' = IF r THEN "checked" ELSE "connect"
          /\ connected' = IF r THEN connected ELSE FALSE
    /\ baud' = 1
    /\ UNCHANGED <<ser, mop, marg, attempts, handle, mres, server, render, submit,
                   screen>>

\* open_serial_port returns a handle: connect() returns True.
OpenSucceeds ==
    /\ mpc = "connect"
    /\ baud <= NBauds
    /\ attempts' = Append(attempts, [rate |-> baud, result |-> "opened"])
    /\ ser' = "open"
    /\ handle' = baud
    /\ connected' = TRUE
    /\ AfterConnect
    /\ UNCHANGED <<mop, marg, baud, alive, server, render, submit,
                   screen>>

\* open_serial_port catches SerialException and returns None: self.ser = None,
\* the loop goes on with the next rate.
OpenFails ==
    /\ mpc = "connect"
    /\ baud <= NBauds
    /\ attempts' = Append(attempts, [rate |-> baud, result |-> "failed"])
    /\ ser' = "none"
    /\ handle' = 0
    /\ baud' = NextRate(baud)
    /\ UNCHANGED <<connected, mpc, mop, marg, alive, mres, server, render, submit,
                   screen>>

\* serial.Serial raises something else (PermissionError, ...): it leaves
\* open_serial_port and connect(), self.ser is not assigned, and _connect()
\* catches it: _connected = False.
OpenRaises ==
    /\ mpc = "connect"
    /\ baud <= NBauds
    /\ attempts' = Append(attempts, [rate |-> baud, result |-> "raised"])
    /\ connected' = FALSE
    /\ AfterConnect
    /\ UNCHANGED <<ser, mop, marg, baud, handle, alive, server, render, submit,
                   screen>>

\* The loop of connect() is over: connect() returns False.
ConnectExhausted ==
    /\ mpc = "connect"
    /\ baud > NBauds
    /\ connected' = FALSE
    /\ AfterConnect
    /\ UNCHANGED <<ser, mop, marg, baud, attempts, handle, alive, server, render, submit,
                   screen>>

\* `if not self._connected: return False`
ManagerNotConnected ==
    /\ mpc = "checked"
    /\ ~connected
    /\ mpc' = "idle"
    /\ mres' = "False"
    /\ UNCHANGED <<connected, ser, mop, marg, baud, attempts, handle, alive,
                   server, render, submit,
                   screen>>

\* test_connection / display_welcome: the two writes (a write that raises is
\* caught inside VFD220), then `return True`.
ManagerWelcome ==
    /\ mpc = "checked"
    /\ connected
    /\ mop \in {"test_connection", "display_welcome"}
    /\ \E w1 \in WriteResults(ser), w2 \in WriteResults(ser) :
          AnyRaised(<<w1, w2>>) \in BOOLEAN
    /\ mpc' = "idle"
    /\ mres' = "True"
    /\ UNCHANGED <<connected, ser, mop, marg, baud, attempts, handle, alive,
                   server, render, submit,
                   screen>>

\* display_order: the loop over the items, send_multiline_text, `return True`;
\* or the loop raises and the except branch sets _connected = False.
ManagerOrder ==
    /\ mpc = "checked"
    /\ connected
    /\ mop = "display_order"
    /\ connected' = ~RenderRaises(Items(marg))
    /\ mpc' = "idle"
    /\ mres' = IF RenderRaises(Items(marg)) THEN "False" ELSE "True"
    /\ UNCHANGED <<ser, mop, marg, baud, attempts, handle, alive, server, render, submit,
                   screen>>

\* deconnect(): disconnect() finds `self.ser and self.ser.is_open`, close()
\* returns; then _connected = False.
DeconnectCloses ==
    /\ Called("deconnect", "none")
    /\ ser = "open"
    /\ ser' = "closed"
    /\ connected' = FALSE
    /\ mres' = "None"
    /\ UNCHANGED <<mpc, baud, handle, server, render, submit,
                   screen>>

\* deconnect(): close() raises; neither disconnect() nor deconnect() catches
\* it, so `self._connected = False` is not reached.
DeconnectCloseRaises ==
    /\ Called("deconnect", "none")
    /\ ser = "open"
    /\ mres' = "raised"
    /\ UNCHANGED <<connected, ser, mpc, baud, handle, server, render, submit,
                   screen>>

\* deconnect(): self.ser is None or is not open; _connected = False.
DeconnectNothingOpen ==
    /\ Called("deconnect", "none")
    /\ ser # "open"
    /\ connected' = FALSE
    /\ mres' = "None"
    /\ UNCHANGED <<ser, mpc, baud, handle, server, render, submit,
                   screen>>

NextDriver ==
    \/ ManagerCall
    \/ ManagerCallNoItems
    \/ ManagerIsConnected
    \/ OpenSucceeds
    \/ OpenFails
    \/ OpenRaises
    \/ ConnectExhausted
    \/ ManagerNotConnected
    \/ ManagerWelcome
    \/ ManagerOrder
    \/ DeconnectCloses
    \/ DeconnectCloseRaises
    \/ DeconnectNothingOpen

SpecDriver == InitDriver /\ [][NextDriver]_vars

-----------------------------------------------------------------------------
(* The loop of display_order that builds `lines`, one iteration at a time,  *)
(* over valid orders with non-negative prices.  Amounts are counted in      *)
(* 1/Scale, which Python floats hold exactly, so the sums are exact.        *)

\* Number of items of the longest order rendered.
MaxItems == 2

\* Prices are multiples of 1/Scale.
Scale == 4

\* float(price) * Scale for the prices 0.25, 0.5, 1.5, 2.5, 1200.5 and 2500.
RenderPrices == {1, 2, 6, 10, 4802, 10000}

\* int(quantity)
RenderQuantities == {1, 2, 3}

RenderItems == [price : RenderPrices, quantity : RenderQuantities]

RenderOrders == UNION {[1..n -> RenderItems] : n \in 1..MaxItems}

\* f"{value:,.0f}" rounds value to the nearest integer, a tie to the even one.
RoundHalfEven(value) ==
    LET q == value \div Scale
        r == value % Scale
    IN  IF 2 * r < Scale THEN q
        ELSE IF 2 * r > Scale THEN q + 1
        ELSE IF q % 2 = 0 THEN q ELSE q + 1

\* The ',' format option then .replace(',', ' '): the digits of n in groups of
\* three, written here as the sequence of the groups' values.
RECURSIVE Grouped(_)
Grouped(n) == IF n < 1000 THEN <<n>> ELSE Append(Grouped(n \div 1000), n % 1000)

\* VFDManager._format_money
format_money(value) == Grouped(RoundHalfEven(value))

InitRender ==
    /\ pc = [t \in Threads |-> "new"]
    /\ lock = NoThread
    /\ connected = TRUE
    /\ ser = "open"
    /\ orders = << >>
    /\ cur = 0
    /\ stop = [j \in Jobs |-> FALSE]
    /\ jorder = [j \in Jobs |-> "none"]
    /\ jres = [j \in Jobs |-> "none"]
    /\ hop = "none"
    /\ hreq = "none"
    /\ hret = FALSE
    /\ wfail = FALSE
    /\ linkUp = FALSE
    /\ DriverOff
    /\ SubmitOff
    /\ ScreenOff
    /\ order_items \in RenderOrders
    /\ total = 0
    /\ lines = << >>

\* One iteration of `for item in order_items`: item_total = price * quantity;
\* total += item_total; lines.append(... _format_money(item_total) ...)
RenderItem ==
    /\ Len(lines) < Len(order_items)
    /\ LET item == order_items[Len(lines) + 1]
           item_total == item.price * item.quantity
       IN  /\ total' = total + item_total
           /\ lines' = Append(lines, format_money(item_total))
    /\ UNCHANGED <<order_items, connected, ser, server, driver, submit,
                   screen>>

\* After the loop: lines.append(f"TOTAL = {self._format_money(total)} Ar")
RenderTotal ==
    /\ Len(lines) = Len(order_items)
    /\ lines' = Append(lines, format_money(total))
    /\ UNCHANGED <<order_items, total, connected, ser, server, driver, submit,
                   screen>>

NextRender == RenderItem \/ RenderTotal

SpecRender == InitRender /\ [][NextRender]_vars

-----------------------------------------------------------------------------
(* display_order_on_vfd called by several request threads at once (the      *)
(* development server handles every request in a thread of its own), each   *)
(* with a valid order, one statement at a time.  The job threads are only   *)
(* followed from start() to their end.                                      *)

\* The request threads; each submits one order.
Submitters == 1..(MaxJobs + 1)

InitSubmit ==
    /\ pc = [t \in Threads |-> "new"]
    /\ lock = NoThread
    /\ connected = TRUE
    /\ ser = "open"
    /\ orders = << >>
    /\ cur = 0
    /\ stop = [j \in Jobs |-> FALSE]
    /\ jorder = [j \in Jobs |-> "none"]
    /\ jres = [j \in Jobs |-> "none"]
    /\ hop = "none"
    /\ hreq = "none"
    /\ hret = FALSE
    /\ wfail = FALSE
    /\ linkUp = FALSE
    /\ DriverOff
    /\ RenderOff
    /\ spc = [s \in Submitters |-> "idle"]
    /\ sde = 0
    /\ jev = [j \in Jobs |-> 0]
    /\ ScreenOff

\* What no step of a submission touches.
SubmitFrame ==
    UNCHANGED <<lock, connected, ser, orders, jorder, jres, hop, hreq, hret,
                wfail, linkUp, driver, render, screen>>

\* Request thread s moves on to `to`.
Goto(s, to) == spc' = [spc EXCEPT ![s] = to]

\* `if current_display_thread and current_display_thread.is_alive():`
SubmitCheck(s) ==
    /\ spc[s] = "idle"
    /\ Goto(s, IF cur # 0 /\ pc[cur] = "started" THEN "set" ELSE "event")
    /\ UNCHANGED <<pc, cur, stop, sde, jev>>
    /\ SubmitFrame

\* stop_display_event.set()
SubmitSet(s) ==
    /\ spc[s] = "set"
    /\ stop' = [stop EXCEPT ![sde] = TRUE]
    /\ Goto(s, "join")
    /\ UNCHANGED <<pc, cur, sde, jev>>
    /\ SubmitFrame

\* current_display_thread.join(timeout=2) returns: the thread has ended or
\* the timeout has elapsed.
SubmitJoin(s) ==
    /\ spc[s] = "join"
    /\ Goto(s, "clear")
    /\ UNCHANGED <<pc, cur, stop, sde, jev>>
    /\ SubmitFrame

\* stop_display_event.clear()
SubmitClear(s) ==
    /\ spc[s] = "clear"
    /\ stop' = [stop EXCEPT ![sde] = FALSE]
    /\ Goto(s, "event")
    /\ UNCHANGED <<pc, cur, sde, jev>>
    /\ SubmitFrame

\* stop_display_event = threading.Event()
SubmitNewEvent(s) ==
    /\ spc[s] = "event"
    /\ sde' = sde + 1
    /\ Goto(s, "thread")
    /\ UNCHANGED <<pc, cur, stop, jev>>
    /\ SubmitFrame

\* current_display_thread = threading.Thread(..., args=(order,
\* stop_display_event)): the new thread gets the Event the global refers to now.
SubmitNewThread(s) ==
    /\ spc[s] = "thread"
    /\ cur' = NextJob
    /\ jev' = [jev EXCEPT ![NextJob] = sde]
    /\ pc' = [pc EXCEPT ![NextJob] = "created"]
    /\ Goto(s, "start")
    /\ UNCHANGED <<stop, sde>>
    /\ SubmitFrame

\* current_display_thread.start(); return True
SubmitStart(s) ==
    /\ spc[s] = "start"
    /\ pc[cur] = "created"
    /\ pc' = [pc EXCEPT ![cur] = "started"]
    /\ Goto(s, "true")
    /\ UNCHANGED <<cur, stop, sde, jev>>
    /\ SubmitFrame

\* current_display_thread.start() on a thread that was started already raises
\* RuntimeError; the except branch returns False.
SubmitStartRaises(s) ==
    /\ spc[s] = "start"
    /\ pc[cur] # "created"
    /\ Goto(s, "false")
    /\ UNCHANGED <<pc, cur, stop, sde, jev>>
    /\ SubmitFrame

\* display_order_thread returns (its wait ended, by the event or the timeout).
SubmitJobEnds(j) ==
    /\ pc[j] = "started"
    /\ pc' = [pc EXCEPT ![j] = "done"]
    /\ UNCHANGED <<cur, stop, spc, sde, jev>>
    /\ SubmitFrame

NextSubmit ==
    \/ \E s \in Submitters : SubmitCheck(s)
    \/ \E s \in Submitters : SubmitSet(s)
    \/ \E s \in Submitters : SubmitJoin(s)
    \/ \E s \in Submitters : SubmitClear(s)
    \/ \E s \in Submitters : SubmitNewEvent(s)
    \/ \E s \in Submitters : SubmitNewThread(s)
    \/ \E s \in Submitters : SubmitStart(s)
    \/ \E s \in Submitters : SubmitStartRaises(s)
    \/ \E j \in Jobs : SubmitJobEnds(j)

SpecSubmit == InitSubmit /\ [][NextSubmit]_vars

-----------------------------------------------------------------------------
(* One order from display_order to the device: the lines display_order      *)
(* builds, send_multiline_text, and one send_text per display line, on a    *)
(* port that accepts every write.  A text is a sequence of characters.      *)

\* VFD_WIDTH and VFD_HEIGHT, by default.
display_width == 20
display_height == 2

\* The characters of the names that .encode('ascii') refuses.
NonAscii == {"e-acute"}

\* str(item.get("name")): Tea, Banana, Chocolate and Cafe with an acute accent.
ScreenNames ==
    { <<"T", "e", "a">>,
      <<"B", "a", "n", "a", "n", "a">>,
      <<"C", "h", "o", "c", "o", "l", "a", "t", "e">>,
      <<"C", "a", "f", "e-acute">> }

\* float(price) * Scale for the prices 1200.5, 2500 and 10000000.
ScreenPrices == {4802, 10000, 40000000}

ScreenItems == [name : ScreenNames, price : ScreenPrices, quantity : {1, 2}]

ScreenOrders == UNION {[1..n -> ScreenItems] : n \in 1..MaxItems}

Spaces(n) == [i \in 1..n |-> " "]

\* text[:n]
Clip(text, n) == IF Len(text) <= n THEN text ELSE SubSeq(text, 1, n)

\* text.ljust(n)
ljust(text, n) == IF Len(text) >= n THEN text ELSE text \o Spaces(n - Len(text))

\* VFDManager._format_name
format_name(name) == IF Len(name) >= 7 THEN Clip(name, 7) ELSE ljust(name, 5)

DigitChar(d) == <<"0", "1", "2", "3", "4", "5", "6", "7", "8", "9">>[d + 1]

\* The decimal digits of n.
RECURSIVE DigitsText(_)
DigitsText(n) ==
    IF n < 10 THEN <<DigitChar(n)>>
    ELSE Append(DigitsText(n \div 10), DigitChar(n % 10))

\* The text of _format_money: the first group as it is, the others on three
\* digits, a space between two groups.
RECURSIVE MoneyText(_)
MoneyText(groups) ==
    IF Len(groups) = 1 THEN DigitsText(groups[1])
    ELSE LET g == groups[Len(groups)]
         IN  MoneyText(SubSeq(groups, 1, Len(groups) - 1))
                 \o <<" ", DigitChar(g \div 100), DigitChar((g \div 10) % 10),
                      DigitChar(g % 10)>>

\* f"{formatted_name}: {formatted_price} Ar"
ItemLine(item) ==
    format_name(item.name) \o <<":", " ">>
        \o MoneyText(format_money(item.price * item.quantity))
        \o <<" ", "A", "r">>

\* The local `total` after the loop over the first n items.
RECURSIVE TotalOf(_, _)
TotalOf(order, n) ==
    IF n = 0 THEN 0
    ELSE TotalOf(order, n - 1) + order[n].price * order[n].quantity

TotalPrefix == <<"T", "O", "T", "A", "L", " ", "=", " ">>

\* f"TOTAL = {total_formatted} Ar"
TotalLine(order) ==
    TotalPrefix \o MoneyText(format_money(TotalOf(order, Len(order))))
        \o <<" ", "A", "r">>

\* The `lines` display_order gives to send_multiline_text.
OrderLines(order) ==
    [i \in 1..(Len(order) + 1) |->
        IF i <= Len(order) THEN ItemLine(order[i]) ELSE TotalLine(order)]

\* lines[-self.display_height:]
LastLines(ls) ==
    IF Len(ls) <= display_height THEN ls
    ELSE SubSeq(ls, Len(ls) - display_height + 1, Len(ls))

\* The loop of send_multiline_text that builds display_lines.
DisplayLines(ls) ==
    [i \in 1..display_height |->
        IF i <= Len(LastLines(ls))
        THEN ljust(Clip(LastLines(ls)[i], display_width), display_width)
        ELSE Spaces(display_width)]

\* message.encode('ascii') returns.
Encodes(message) == \A i \in 1..Len(message) : message[i] \notin NonAscii

InitScreen ==
    /\ pc = [t \in Threads |-> "new"]
    /\ lock = NoThread
    /\ connected = TRUE
    /\ ser = "open"
    /\ orders = << >>
    /\ cur = 0
    /\ stop = [j \in Jobs |-> FALSE]
    /\ jorder = [j \in Jobs |-> "none"]
    /\ jres = [j \in Jobs |-> "none"]
    /\ hop = "none"
    /\ hreq = "none"
    /\ hret = FALSE
    /\ wfail = FALSE
    /\ linkUp = FALSE
    /\ DriverOff
    /\ RenderOff
    /\ SubmitOff
    /\ screen_order \in ScreenOrders
    /\ display_lines = << >>
    /\ sent = 0
    /\ written = << >>

\* What the path to the device leaves alone.
ScreenFrame ==
    UNCHANGED <<screen_order, connected, ser, server, driver, render, submit>>

\* display_order calls send_multiline_text(lines): display_lines is built and
\* clear_display() is called.
SendMultilineText ==
    /\ display_lines = << >>
    /\ display_lines' = DisplayLines(OrderLines(screen_order))
    /\ written' = << >>
    /\ sent' = 0
    /\ ScreenFrame

\* send_text(m): m is padded to display_width, encoded and written.
SendText ==
    /\ sent < Len(display_lines)
    /\ Encodes(display_lines[sent + 1])
    /\ written' = Append(written, ljust(display_lines[sent + 1], display_width))
    /\ sent' = sent + 1
    /\ UNCHANGED display_lines
    /\ ScreenFrame

\* send_text(m): encode('ascii') raises UnicodeEncodeError, which send_text
\* catches and logs; nothing is written for m.
SendTextEncodeFails ==
    /\ sent < Len(display_lines)
    /\ ~Encodes(display_lines[sent + 1])
    /\ sent' = sent + 1
    /\ UNCHANGED <<display_lines, written>>
    /\ ScreenFrame

NextScreen == SendMultilineText \/ SendText \/ SendTextEncodeFails

SpecScreen == InitScreen /\ [][NextScreen]_vars

-----------------------------------------------------------------------------
(* Properties.                                                              *)

\* The number of orders display_order_on_vfd has accepted so far.
Submitted == Cardinality({j \in Jobs : pc[j] # "new"})

\* Job j has entered the `with self._lock` block of display_order.
HasAcquired(j) == pc[j] \in {"ensure", "write", "wait", "done"}

\* Job j performs its write step (send_multiline_text is called and
\* display_order returns True) in the step at hand.
WritesNow(j) == jres[j] # "ok" /\ jres'[j] = "ok"

\* The value of float(text) is negative; the value of int(text) is positive.
FloatNegative(text) == text \in {"-500"}
IntPositive(text) == text \in {"1", "2", "3", HugeInt}

\* An order as the interface describes it: every item has a name, a price
\* that parses and is not negative, a quantity that parses and is positive.
WellFormed(data) ==
    /\ validate_order_data(data)
    /\ \A item \in Range(data.items) :
          /\ ~FloatNegative(GetPrice(item))
          /\ IntPositive(GetQuantity(item))

\* Some item of the payload carries a price float() does not accept.
NonNumericPrice(data) ==
    /\ data.list
    /\ \E item \in Range(data.items) :
          item.dict /\ "price" \in DOMAIN item.f /\ ~FloatParses(item.f.price)

\* C1: every thread that is inside test_connection, display_welcome or
\* display_order between the connection check and the end of its writes holds
\* VFDManager._lock, so at most one thread is writing to the device.
C1_WritesUnderLock ==
    \A t \in Threads : pc[t] \in {"ensure", "write"} => lock = t

\* C1 witness: one thread is at its writes while another waits for the lock.
C1_Witness ==
    \E t \in Threads, u \in Threads :
        t # u /\ pc[t] = "write" /\ lock = t /\ pc[u] = "acquire"

\* C2: two different orders A then B, submitted one after the other and both
\* displayed with success: once both job threads have finished their work
\* (they only wait for their end) `orders` holds B's items, and job A performs
\* no device write after job B has performed its own.
C2_Orig ==
    /\ [](  (/\ Submitted = 2 /\ jorder[1] # jorder[2]
             /\ pc[1] = "wait" /\ pc[2] = "wait"
             /\ jres[1] = "ok" /\ jres[2] = "ok")
          => orders = Items(jorder[2]))
    /\ [][(Submitted = 2 /\ jorder[1] # jorder[2] /\ jres[2] = "ok")
             => ~WritesNow(1)]_vars

\* C3: when display_order has returned False for the order of job j, `orders`
\* does not hold that order (unless a job still alive displayed the same order
\* with success).
C3_Orig ==
    \A j \in Jobs :
        (pc[j] = "wait" /\ jres[j] \in {"fail", "raised"})
            => \/ orders # Items(jorder[j])
               \/ \E k \in Jobs : k # j /\ jres[k] = "ok" /\ jorder[k] = jorder[j]

\* C4: with three or more orders submitted, no job performs its write step
\* after a job submitted later, and still alive, has performed its own.
C4_Orig ==
    [][\A j \in Jobs, k \in Jobs :
          (Submitted >= 3 /\ j < k /\ jres[k] = "ok") => ~WritesNow(j)]_vars

\* C5: a job whose stop event is set before it has entered display_order does
\* not enter it.
C5_Orig ==
    [][\A j \in Jobs :
          (stop[j] /\ pc[j] \in {"started", "cleared"}) => pc'[j] # "acquire"]_vars

\* C6: a submission with a price that is not numerically parseable is
\* answered False in the step that receives it, and that step starts no job,
\* signals no job and changes neither `orders`, the in-flight job, its stop
\* event, the connection state, the handle nor the lock.
C6_RejectedBeforeIO ==
    [][(pc[H] = "serve" /\ hop' = "order" /\ NonNumericPrice(Payload(hreq')))
          => /\ pc'[H] = "ret"
             /\ hret' = FALSE
             /\ \A j \in Jobs : pc'[j] = pc[j]
             /\ UNCHANGED <<lock, connected, ser, orders, cur, stop, jorder, jres>>]_vars

\* C6 witness: the handler has answered False to the order with the price
\* "abc" while a job is in flight.
C6_Witness ==
    /\ pc[H] = "ret" /\ hop = "order" /\ hreq = "badprice" /\ ~hret
    /\ IsAlive(cur)

\* C7: display_order_on_vfd answers True only for a well-formed order, and
\* only well-formed orders are written to the device.
C7_Orig ==
    /\ (pc[H] = "ret" /\ hop = "order" /\ hret) => WellFormed(Payload(hreq))
    /\ \A j \in Jobs : jres[j] = "ok" => WellFormed(Payload(jorder[j]))

\* C8: test_connection / display_welcome does not return True when one of its
\* serial writes raised.
C8_Orig ==
    (pc[H] = "ret" /\ hop \in {"boot", "status", "welcome"} /\ wfail) => ~hret

\* C9: when display_order has returned False for the order just submitted,
\* display_order_on_vfd has not answered True for it.
C9_Orig ==
    (/\ pc[H] = "ret" /\ hop = "order"
     /\ cur # 0 /\ jorder[cur] = hreq /\ jres[cur] \in {"fail", "raised"})
        => ~hret

\* C10: after display_order has marked the connection failed in its except
\* branch, an operation in which the link is found alive (is_connected() is
\* True) or is opened again returns True.
C10_Orig ==
    (/\ pc[H] = "ret" /\ hop \in {"status", "welcome"} /\ linkUp
     /\ \E j \in Jobs : jres[j] = "raised")
        => hret

\* No open_serial_port call of the current operation returned a handle.
NoOpen == \A i \in 1..Len(attempts) : attempts[i].result # "opened"

\* C11: when a sweep started by _ensure_connection() has ended with no open
\* succeeding, every candidate rate was tried once, _connected is False and no
\* open handle is held.
C11_Orig ==
    (mpc \in {"checked", "idle"} /\ alive = "no" /\ attempts # << >> /\ NoOpen)
        => /\ Len(attempts) = NBauds
           /\ ~connected
           /\ ser # "open"

\* C12: no public operation of VFDManager raises to its caller.
C12_Orig == mres # "raised"

\* C13: a step of deconnect() taken while another thread is inside
\* test_connection, display_welcome or display_order, between its connection
\* check and the end of its writes, changes neither the handle nor _connected.
C13_Orig ==
    [][(/\ \/ pc[H] = "serve" /\ hop' = "deconnect"
           \/ pc[H] = "ret" /\ hop = "boot" /\ pc'[H] = "serve"
        /\ \E t \in Threads \ {H} : pc[t] \in {"ensure", "write"})
          => UNCHANGED <<ser, connected>>]_vars

\* C14: no step of test_connection, from the call of the status endpoint (or
\* of __main__) to its return, changes `orders`, whatever the step's outcome.
C14_ProbeKeepsOrders ==
    [][(\/ pc[H] = "serve" /\ hop' = "status"
        \/ /\ hop \in {"boot", "status"}
           /\ pc[H] \in {"acquire", "ensure", "write"}
           /\ pc'[H] # pc[H])
          => orders' = orders]_vars

\* C14 witness: test_connection has returned True to the status endpoint while
\* `orders` holds an order and its job is still alive.
C14_Witness ==
    /\ pc[H] = "ret" /\ hop = "status" /\ hret
    /\ orders # << >>
    /\ IsAlive(cur)

\* C15: after deconnect() _connected is False and no open handle is held, so
\* that the next operation must reconnect; and a deconnect() that follows a
\* deconnect() changes nothing.
C15_Orig ==
    /\ []((mpc = "idle" /\ mop = "deconnect")
            => /\ ~connected
               /\ ser # "open"
               /\ IsConnectedResults(ser) = {FALSE})
    /\ [][(mpc = "idle" /\ mop = "deconnect" /\ mop' = "deconnect")
            => UNCHANGED <<connected, ser, handle>>]_vars

\* The number an amount text stands for.
RECURSIVE AmountOf(_)
AmountOf(groups) ==
    IF groups = << >> THEN 0
    ELSE 1000 * AmountOf(SubSeq(groups, 1, Len(groups) - 1)) + groups[Len(groups)]

\* The sum of the amounts on the first n lines.
RECURSIVE SumOfLines(_)
SumOfLines(n) == IF n = 0 THEN 0 ELSE SumOfLines(n - 1) + AmountOf(lines[n])

\* C16: once the TOTAL line is built, its amount is the sum of the amounts on
\* the item lines.
C16_Orig ==
    Len(lines) = Len(order_items) + 1
        => AmountOf(lines[Len(lines)]) = SumOfLines(Len(order_items))

\* C17: the open attempts of an operation go through the rates in configured
\* order, one attempt per rate; an attempt that succeeds is the last one, all
\* before it failed, and the handle held is the one it opened; no open is
\* attempted in an operation whose is_connected() returned True, and outside
\* VFDManager() a sweep only follows an is_connected() that returned False.
C17_SweepInOrder ==
    /\ \A i \in 1..Len(attempts) : attempts[i].rate = i
    /\ \A i \in 1..Len(attempts) :
          attempts[i].result = "opened"
              => /\ i = Len(attempts)
                 /\ \A k \in 1..(i - 1) : attempts[k].result = "failed"
                 /\ mpc # "connect"
                 /\ ser = "open"
                 /\ handle = i
    /\ alive = "yes" => attempts = << >>
    /\ (attempts # << >> /\ mop # "init") => alive = "no"

\* C17 witness: an operation found the link dead, failed to open at the first
\* two rates, opened at the third and returned True.
C17_Witness ==
    /\ mpc = "idle" /\ mres = "True" /\ alive = "no"
    /\ Len(attempts) = 3
    /\ attempts[3].result = "opened"
    /\ handle = 3

\* C18: a new job is only started over a live job whose stop event is set, and
\* a stop event that is set stays set for as long as its job thread is alive.
C18_Orig ==
    [][/\ \A k \in Jobs :
             (pc[k] = "new" /\ pc'[k] = "started" /\ IsAlive(cur)) => stop[cur]
       /\ \A j \in Jobs :
             (stop[j] /\ IsAlive(j) /\ pc'[j] # "done") => stop'[j]]_vars

\* Job thread j is alive and the Event it was given is not set.
Unsignalled(j) == pc[j] = "started" /\ ~stop[jev[j]]

\* C19: at most one live job thread has its Event not set, and that thread is
\* the one current_display_thread refers to, with stop_display_event its Event.
C19_Orig ==
    /\ Cardinality({j \in Jobs : Unsignalled(j)}) <= 1
    /\ \A j \in Jobs : Unsignalled(j) => (cur = j /\ sde = jev[j])

\* The text is the TOTAL line; the text is blank.
IsTotal(text) == Clip(text, Len(TotalPrefix)) = TotalPrefix
IsBlank(text) == \A i \in 1..Len(text) : text[i] = " "

\* C22: once send_multiline_text has sent its lines, exactly display_height
\* texts of display_width characters were written, and the TOTAL line is one
\* of them, with only blank texts after it.
C22_Orig ==
    (display_lines # << >> /\ sent = Len(display_lines))
        => /\ Len(written) = display_height
           /\ \A i \in 1..Len(written) : Len(written[i]) = display_width
           /\ \E i \in 1..Len(written) :
                 /\ IsTotal(written[i])
                 /\ \A k \in (i + 1)..Len(written) : IsBlank(written[k])

\* C21: under fair scheduling every started job thread ends; it can end as
\* soon as it waits (on the timeout, or on its stop event when that is set),
\* and the step that ends it leaves the lock, the handle and _connected alone.
C21_JobsEnd ==
    /\ \A j \in Jobs : (pc[j] = "started") ~> (pc[j] = "done")
    /\ [][\A j \in Jobs :
             (pc[j] # "done" /\ pc'[j] = "done")
                 => (pc[j] = "wait" /\ UNCHANGED <<lock, ser, connected, wfail>>)]_vars

\* C21 witness: a superseded job has ended while the job that replaced it is
\* still alive.
C21_Witness ==
    \E j \in Jobs : pc[j] = "done" /\ cur # j /\ IsAlive(cur)

\* C23: a thread outside the `with self._lock` block of an operation does not
\* hold the lock, and under fair scheduling every thread that has called
\* test_connection, display_welcome or display_order gets the lock and returns.
C23_LockReleased ==
    /\ [](\A t \in Threads : lock = t => pc[t] \in {"ensure", "write"})
    /\ \A t \in Threads :
          (pc[t] = "acquire") ~> (pc[t] \in {"ret", "wait"})

\* C23 witness: a thread waits for the lock while another one holds it and has
\* found the link down.
C23_Witness ==
    \E t \in Threads, u \in Threads :
        t # u /\ pc[t] = "acquire" /\ lock = u /\ pc[u] = "ensure" /\ ~connected

\* C24: VFD220.connect never assigns self.ser (a new handle, or None after a
\* failed open) while the handle self.ser refers to is still open.
C24_Orig ==
    [][(/\ mpc = "connect"
        /\ Len(attempts') > Len(attempts)
        /\ attempts'[Len(attempts')].result \in {"opened", "failed"})
          => ser # "open"]_vars

\* The complete item lists of the orders the server accepts.
SubmittedOrders ==
    {Items(name) : name \in {n \in PayloadNames :
                                 /\ ~NoData(Payload(n))
                                 /\ validate_order_data(Payload(n))}}

\* C20: `orders` is empty or the complete item list of one accepted order, and
\* a step that changes `orders` is taken by a job thread that holds _lock.
C20_Orig ==
    /\ [](orders = << >> \/ orders \in SubmittedOrders)
    /\ [][orders' # orders => (lock \in Jobs /\ lock' = lock)]_vars

====
